---- MODULE Spec2Model ----
(***************************************************************************)
(* Model of imhotep's GitHub reporters (src/imhotep/reporters/github.py). *)
(*                                                                         *)
(* One reporter instance (CommitReporter, PRReporter or PRReviewReporter)  *)
(* is driven by a single-threaded caller.  Every public method is one      *)
(* action; the transport (requester.get / requester.post) is external, so  *)
(* its responses are chosen nondeterministically and every request is      *)
(* recorded in a log, as a mock requester would.                           *)
(*                                                                         *)
(* Data representation                                                     *)
(*   - a Python str is a sequence of one-character strings, so that the    *)
(*     substring test `m in body` and iteration over a str are modelled;   *)
(*   - the `message` argument is a tagged value: PyStr(s) or PyList(l);    *)
(*   - a JSON body is [shape, items]: a list of comments or a dict;        *)
(*   - None is the record [None |-> TRUE].                                 *)
(***************************************************************************)
EXTENDS Integers, Sequences, FiniteSets, TLC

VARIABLES
    kind,            \* class of the instance
    _comments,       \* GitHubReporter._comments, the comment cache
    comments,        \* PRReviewReporter.comments, the pending review
    pr_reviews_url,  \* PRReviewReporter.pr_reviews_url, set by submit_review
    gets,            \* log of requester.get calls: [url, status_code]
    posts,           \* log of requester.post calls: [url, payload]
    result,          \* what requester.post returned in the last call, or None
    call,            \* the last method call and its arguments
    ret,             \* the value the last call returned
    ncalls           \* number of method calls made so far

vars == <<kind, _comments, comments, pr_reviews_url, gets, posts, result, call, ret, ncalls>>

-----------------------------------------------------------------------------
(* Bounds *)

MaxCalls == 3        \* method calls per run
MaxGets == 3         \* requester.get calls per run
MaxComments == 2     \* comments in one existing-comments list

-----------------------------------------------------------------------------
(* Values *)

\* None where an object is expected (a payload, a response)
None == [None |-> TRUE]

\* None where a str is expected (Optional[str] arguments, unset attributes)
NoneStr == "None"

PyStr(s) == [t |-> "str", v |-> <<s>>]
PyList(l) == [t |-> "list", v |-> l]

JsonList(items) == [shape |-> "list", items |-> items]
JsonDict(items) == [shape |-> "dict", items |-> items]

\* Python truthiness of a JSON collection: empty list and empty dict are falsy
Truthy(json) == Len(json.items) > 0

\* the acting identity, requester.username
username == "magicmock"

domain == "github.com"
repo_name == "foo/bar"
pr_number == "10"

Kinds == {"CommitReporter", "PRReporter", "PRReviewReporter"}

\* texts of single findings
MsgA == <<"a">>
MsgB == <<"b">>
MsgAB == <<"a", "b">>

\* the arguments of report_line
Finding(commit, file_name, position, message) ==
    [commit |-> commit, file_name |-> file_name, position |-> position,
     message |-> message]

\* the findings the driver reports; message is a str or a list of str
Findings ==
    { Finding("sha1", "foo.py", 0, PyStr(MsgAB)),
      Finding("sha1", "foo.py", 0, PyList(<<MsgA, MsgB>>)),
      Finding("sha2", "foo.py", 0, PyList(<<MsgA, MsgB>>)),
      Finding("sha1", "foo.py", 1, PyList(<<MsgA, MsgB>>)) }

Commits == {f.commit : f \in Findings}

\* the message argument of post_comment
CommentMessages == {MsgA}

Comment(path, position, body, login) ==
    [path |-> path, position |-> position, body |-> body,
     user |-> [login |-> login]]

\* bodies of comments already on the remote service
BodyA == <<"*", " ", "a", "\n">>
BodyB == <<"*", " ", "b", "\n">>
BodyAB == <<"*", " ", "a", "\n", "*", " ", "b", "\n">>

\* JSON bodies a successful GET may return: a list of comments, possibly
\* empty, or an empty dict
Bodies ==
    { JsonList(<<>>),
      JsonDict(<<>>),
      JsonList(<<Comment("foo.py", 0, BodyA, username),
                 Comment("foo.py", 0, BodyAB, username)>>),
      JsonList(<<Comment("foo.py", 0, BodyAB, "octocat"),
                 Comment("foo.py", 1, BodyAB, username)>>) }

\* existing comments handed to clean_already_reported when it is called
\* directly
CommentPool ==
    { Comment("foo.py", 0, BodyA, username),
      Comment("foo.py", 0, BodyB, username),
      Comment("foo.py", 0, BodyA, "octocat"),
      Comment("bar.py", 0, BodyA, username),
      Comment("foo.py", 1, BodyA, username) }

RECURSIVE SeqsUpTo(_, _)
SeqsUpTo(S, n) ==
    IF n = 0 THEN {<<>>}
    ELSE LET shorter == SeqsUpTo(S, n - 1)
         IN  shorter \cup {Append(l, x) : l \in shorter, x \in S}

CommentLists == SeqsUpTo(CommentPool, MaxComments)

\* candidate messages handed to clean_already_reported when it is called
\* directly
CandidateMessages ==
    { PyList(<<>>), PyList(<<MsgA>>), PyList(<<MsgA, MsgB>>),
      PyList(<<MsgB, MsgA>>), PyList(<<MsgAB>>), PyStr(MsgAB) }

ErrorBody == JsonDict(<<[key |-> "message", value |-> "Not Found"]>>)

\* a transport response: status code and parsed JSON body
Response(status_code, json) == [status_code |-> status_code, json |-> json]

GetResponses ==
    {Response(200, b) : b \in Bodies} \cup {Response(404, ErrorBody)}

PostResponses == {Response(201, JsonDict(<<>>)), Response(422, ErrorBody)}

-----------------------------------------------------------------------------
(* Python str operations *)

\* `sub in text`
Contains(text, sub) ==
    \E i \in 0..(Len(text) - Len(sub)) : SubSeq(text, i + 1, i + Len(sub)) = sub

\* `for m in message`: a list yields its elements, a str its characters
Iterate(message) ==
    IF message.t = "str"
    THEN [i \in 1..Len(message.v[1]) |-> <<message.v[1][i]>>]
    ELSE message.v

-----------------------------------------------------------------------------
(* URLs *)

CommitCommentsUrl(commit) ==
    "https://api." \o domain \o "/repos/" \o repo_name \o "/commits/"
        \o commit \o "/comments"

pr_comments_url ==
    "https://api." \o domain \o "/repos/" \o repo_name \o "/pulls/"
        \o pr_number \o "/comments"

IssueCommentsUrl ==
    "https://api." \o domain \o "/repos/" \o repo_name \o "/issues/"
        \o pr_number \o "/comments"

ReviewsUrl ==
    "https://api." \o domain \o "/repos/" \o repo_name \o "/pulls/"
        \o pr_number \o "/reviews"

-----------------------------------------------------------------------------
(* GitHubReporter *)

\* clean_already_reported scanning for the last matching comment
RECURSIVE clean_last_match(_, _, _, _)
clean_last_match(existing, file_name, position, message) ==
    IF existing = <<>> THEN message
    ELSE LET comment == existing[Len(existing)]
             NotInBody(m) == ~Contains(comment.body, m)
         IN  IF /\ comment.path = file_name
                /\ comment.position = position
                /\ comment.user.login = username
             THEN PyList(SelectSeq(Iterate(message), NotInBody))
             ELSE clean_last_match(SubSeq(existing, 1, Len(existing) - 1),
                                   file_name, position, message)

\* clean_already_reported comparing with `!=` instead of `not in`
RECURSIVE clean_not_equal(_, _, _, _)
clean_not_equal(existing, file_name, position, message) ==
    IF existing = <<>> THEN message
    ELSE LET comment == Head(existing)
             NotBody(m) == m # comment.body
         IN  IF /\ comment.path = file_name
                /\ comment.position = position
                /\ comment.user.login = username
             THEN PyList(SelectSeq(Iterate(message), NotBody))
             ELSE clean_not_equal(Tail(existing), file_name, position, message)

RECURSIVE clean_already_reported(_, _, _, _)
clean_already_reported(existing, file_name, position, message) ==
    IF existing = <<>> THEN message
    ELSE LET comment == Head(existing)
             NotInBody(m) == ~Contains(comment.body, m)
         IN  IF /\ comment.path = file_name
                /\ comment.position = position
                /\ comment.user.login = username
             THEN PyList(SelectSeq(Iterate(message), NotInBody))
             ELSE clean_already_reported(Tail(existing), file_name,
                                         position, message)

\* get_comments storing the body of a failed request
get_comments_stores_error(cache, log, report_url, response) ==
    IF ~Truthy(cache)
    THEN [_comments |-> response.json,
          gets |-> Append(log, [url |-> report_url,
                                status_code |-> response.status_code]),
          ret |-> response.json]
    ELSE [_comments |-> cache, gets |-> log, ret |-> cache]

\* requester.get is called only when the cache is falsy; `response` is what
\* it then returns
get_comments(cache, log, report_url, response) ==
    IF ~Truthy(cache)
    THEN LET log2 == Append(log, [url |-> report_url,
                                  status_code |-> response.status_code])
         IN  IF response.status_code >= 400
             THEN [_comments |-> cache, gets |-> log2, ret |-> cache]
             ELSE [_comments |-> response.json, gets |-> log2,
                   ret |-> response.json]
    ELSE [_comments |-> cache, gets |-> log, ret |-> cache]

\* convert_message_to_string without the trailing line break
RECURSIVE convert_loop_no_newline(_, _)
convert_loop_no_newline(message, final_message) ==
    IF message = <<>> THEN final_message
    ELSE convert_loop_no_newline(Tail(message),
                                 final_message \o <<"*", " ">> \o Head(message))

RECURSIVE convert_loop(_, _)
convert_loop(message, final_message) ==
    IF message = <<>> THEN final_message
    ELSE convert_loop(Tail(message),
                      final_message \o <<"*", " ">> \o Head(message)
                                    \o <<"\n">>)

convert_message_to_string(message) == convert_loop(message, <<>>)

\* get_payload attaching payload[commit_key] = commit without the None test
get_payload_always_commit(cache, log, comments_url, commit, commit_key, file_name, position, message, response) ==
    LET fetched == get_comments(cache, log, comments_url, response)
        normalized == IF message.t = "str" THEN PyList(<<message.v[1]>>)
                      ELSE message
        cleaned == clean_already_reported(fetched.ret.items, file_name,
                                          position, normalized)
        payload == [body |-> convert_message_to_string(cleaned.v),
                    path |-> file_name,
                    position |-> position]
    IN  [_comments |-> fetched._comments,
         gets |-> fetched.gets,
         payload |-> IF Len(cleaned.v) = 0 THEN None
                     ELSE payload @@ (commit_key :> commit)]

\* get_payload without the `if not message: return None`
get_payload_never_none(cache, log, comments_url, commit, commit_key, file_name, position, message, response) ==
    LET fetched == get_comments(cache, log, comments_url, response)
        normalized == IF message.t = "str" THEN PyList(<<message.v[1]>>)
                      ELSE message
        cleaned == clean_already_reported(fetched.ret.items, file_name,
                                          position, normalized)
        payload == [body |-> convert_message_to_string(cleaned.v),
                    path |-> file_name,
                    position |-> position]
    IN  [_comments |-> fetched._comments,
         gets |-> fetched.gets,
         payload |-> IF commit_key # NoneStr /\ commit # NoneStr
                     THEN payload @@ (commit_key :> commit)
                     ELSE payload]

get_payload(cache, log, comments_url, commit, commit_key, file_name, position, message, response) ==
    LET fetched == get_comments(cache, log, comments_url, response)
        existing_comments == fetched.ret
        normalized == IF message.t = "str" THEN PyList(<<message.v[1]>>)
                      ELSE message
        cleaned == clean_already_reported(existing_comments.items, file_name,
                                          position, normalized)
        payload == [body |-> convert_message_to_string(cleaned.v),
                    path |-> file_name,
                    position |-> position]
    IN  [_comments |-> fetched._comments,
         gets |-> fetched.gets,
         payload |-> IF Len(cleaned.v) = 0 THEN None
                     ELSE IF commit_key # NoneStr /\ commit # NoneStr
                          THEN payload @@ (commit_key :> commit)
                          ELSE payload]

\* the responses requester.get can give to a get_comments call: it is only
\* asked when the cache is falsy
GetResponsesFor(cache) ==
    IF Truthy(cache) THEN {Response(200, cache)} ELSE GetResponses

-----------------------------------------------------------------------------
(* The instance after __init__ *)

Init ==
    /\ kind \in Kinds
    /\ _comments = JsonList(<<>>)
    /\ comments = <<>>
    /\ pr_reviews_url = NoneStr
    /\ gets = <<>>
    /\ posts = <<>>
    /\ result = None
    /\ call = [op |-> "__init__"]
    /\ ret = None
    /\ ncalls = 0

ReportLineCall(commit, file_name, position, message) ==
    [op |-> "report_line", commit |-> commit, file_name |-> file_name,
     position |-> position, message |-> message]

Post(url, payload) == Append(posts, [url |-> url, payload |-> payload])

-----------------------------------------------------------------------------
(* GitHubReporter.get_comments called directly *)

GetComments(report_url) ==
    /\ ncalls < MaxCalls
    /\ \E r \in GetResponsesFor(_comments) :
         LET fetched == get_comments(_comments, gets, report_url, r)
         IN  /\ _comments' = fetched._comments
             /\ gets' = fetched.gets
             /\ Len(gets') <= MaxGets
             /\ ret' = fetched.ret
    /\ call' = [op |-> "get_comments", report_url |-> report_url]
    /\ ncalls' = ncalls + 1
    /\ UNCHANGED <<kind, comments, pr_reviews_url, posts, result>>

-----------------------------------------------------------------------------
(* CommitReporter *)

CommitReportLine(commit, file_name, position, message) ==
    /\ kind = "CommitReporter"
    /\ ncalls < MaxCalls
    /\ \E r1 \in GetResponsesFor(_comments) :
         LET report_url == CommitCommentsUrl(commit)
             fetched == get_comments(_comments, gets, report_url, r1)
             cleaned == clean_already_reported(fetched.ret.items, file_name,
                                               position, message)
         IN  \E r2 \in GetResponsesFor(fetched._comments) :
               LET built == get_payload(fetched._comments, fetched.gets,
                                        report_url, commit, "commit_sha",
                                        file_name, position, cleaned, r2)
               IN  /\ _comments' = built._comments
                   /\ gets' = built.gets
                   /\ Len(gets') <= MaxGets
                   /\ IF built.payload = None
                      THEN /\ posts' = posts
                           /\ result' = None
                           /\ ret' = None
                      ELSE /\ posts' = Post(report_url, built.payload)
                           /\ result' \in PostResponses
                           /\ ret' = result'
    /\ call' = ReportLineCall(commit, file_name, position, message)
    /\ ncalls' = ncalls + 1
    /\ UNCHANGED <<kind, comments, pr_reviews_url>>

-----------------------------------------------------------------------------
(* PRReporter *)

\* PRReporter.report_line dropping the comment cache when the POST fails
PRReportLine_DropsCacheOnError(commit, file_name, position, message) ==
    /\ kind = "PRReporter"
    /\ ncalls < MaxCalls
    /\ \E r \in GetResponsesFor(_comments) :
         LET built == get_payload(_comments, gets, pr_comments_url, commit,
                                  "commit_id", file_name, position, message, r)
         IN  /\ gets' = built.gets
             /\ Len(gets') <= MaxGets
             /\ IF built.payload = None
                THEN /\ posts' = posts
                     /\ result' = None
                     /\ ret' = None
                     /\ _comments' = built._comments
                ELSE /\ posts' = Post(pr_comments_url, built.payload)
                     /\ result' \in PostResponses
                     /\ ret' = result'
                     /\ _comments' = IF result'.status_code >= 400
                                     THEN JsonList(<<>>)
                                     ELSE built._comments
    /\ call' = ReportLineCall(commit, file_name, position, message)
    /\ ncalls' = ncalls + 1
    /\ UNCHANGED <<kind, comments, pr_reviews_url>>

PRReportLine(commit, file_name, position, message) ==
    /\ kind = "PRReporter"
    /\ ncalls < MaxCalls
    /\ \E r \in GetResponsesFor(_comments) :
         LET built == get_payload(_comments, gets, pr_comments_url, commit,
                                  "commit_id", file_name, position, message, r)
         IN  /\ _comments' = built._comments
             /\ gets' = built.gets
             /\ Len(gets') <= MaxGets
             /\ IF built.payload = None
                THEN /\ posts' = posts
                     /\ result' = None
                     /\ ret' = None
                ELSE /\ posts' = Post(pr_comments_url, built.payload)
                     /\ result' \in PostResponses
                     /\ ret' = result'
    /\ call' = ReportLineCall(commit, file_name, position, message)
    /\ ncalls' = ncalls + 1
    /\ UNCHANGED <<kind, comments, pr_reviews_url>>

\* post_comment skipping a message it has posted before
PostComment_SkipsRepeated(message) ==
    /\ kind \in {"PRReporter", "PRReviewReporter"}
    /\ ncalls < MaxCalls
    /\ IF \E i \in DOMAIN posts :
            posts[i] = [url |-> IssueCommentsUrl, payload |-> [body |-> message]]
       THEN /\ posts' = posts
            /\ result' = None
            /\ ret' = None
       ELSE /\ posts' = Post(IssueCommentsUrl, [body |-> message])
            /\ result' \in PostResponses
            /\ ret' = result'
    /\ call' = [op |-> "post_comment", message |-> message]
    /\ ncalls' = ncalls + 1
    /\ UNCHANGED <<kind, _comments, comments, pr_reviews_url, gets>>

\* inherited by PRReviewReporter
PostComment(message) ==
    /\ kind \in {"PRReporter", "PRReviewReporter"}
    /\ ncalls < MaxCalls
    /\ posts' = Post(IssueCommentsUrl, [body |-> message])
    /\ result' \in PostResponses
    /\ ret' = result'
    /\ call' = [op |-> "post_comment", message |-> message]
    /\ ncalls' = ncalls + 1
    /\ UNCHANGED <<kind, _comments, comments, pr_reviews_url, gets>>

-----------------------------------------------------------------------------
(* PRReviewReporter *)

\* PRReviewReporter.report_line posting the payload at once, as
\* PRReporter.report_line does
PRReviewReportLine_PostsAtOnce(commit, file_name, position, message) ==
    /\ kind = "PRReviewReporter"
    /\ ncalls < MaxCalls
    /\ \E r \in GetResponsesFor(_comments) :
         LET built == get_payload(_comments, gets, pr_comments_url, NoneStr,
                                  NoneStr, file_name, position, message, r)
         IN  /\ _comments' = built._comments
             /\ gets' = built.gets
             /\ Len(gets') <= MaxGets
             /\ IF built.payload = None
                THEN /\ posts' = posts
                     /\ result' = None
                ELSE /\ posts' = Post(pr_comments_url, built.payload)
                     /\ result' \in PostResponses
    /\ ret' = None
    /\ call' = ReportLineCall(commit, file_name, position, message)
    /\ ncalls' = ncalls + 1
    /\ UNCHANGED <<kind, pr_reviews_url, comments>>

PRReviewReportLine(commit, file_name, position, message) ==
    /\ kind = "PRReviewReporter"
    /\ ncalls < MaxCalls
    /\ \E r \in GetResponsesFor(_comments) :
         LET built == get_payload(_comments, gets, pr_comments_url, NoneStr,
                                  NoneStr, file_name, position, message, r)
         IN  /\ _comments' = built._comments
             /\ gets' = built.gets
             /\ Len(gets') <= MaxGets
             /\ comments' = IF built.payload = None THEN comments
                            ELSE Append(comments, built.payload)
    /\ ret' = None
    /\ call' = ReportLineCall(commit, file_name, position, message)
    /\ ncalls' = ncalls + 1
    /\ UNCHANGED <<kind, pr_reviews_url, posts, result>>

ReviewBody(n) ==
    "Imhotep detected " \o ToString(n) \o " potential problems with this PR."

\* submit_review without the early return on an empty review
SubmitReview_PostsEmpty ==
    /\ kind = "PRReviewReporter"
    /\ ncalls < MaxCalls
    /\ pr_reviews_url' = ReviewsUrl
    /\ posts' = Append(posts,
                       [url |-> ReviewsUrl,
                        payload |-> [body |-> ReviewBody(Len(comments)),
                                     event |-> "COMMENT",
                                     comments |-> comments]])
    /\ result' \in PostResponses
    /\ ret' = result'
    /\ call' = [op |-> "submit_review"]
    /\ ncalls' = ncalls + 1
    /\ UNCHANGED <<kind, _comments, comments, gets>>

\* submit_review emptying self.comments once the review is posted
SubmitReview_Clears ==
    /\ kind = "PRReviewReporter"
    /\ ncalls < MaxCalls
    /\ pr_reviews_url' = ReviewsUrl
    /\ IF Len(comments) = 0
       THEN /\ posts' = posts
            /\ result' = None
            /\ ret' = None
            /\ comments' = comments
       ELSE /\ posts' = Append(posts,
                               [url |-> ReviewsUrl,
                                payload |-> [body |-> ReviewBody(Len(comments)),
                                             event |-> "COMMENT",
                                             comments |-> comments]])
            /\ result' \in PostResponses
            /\ ret' = result'
            /\ comments' = <<>>
    /\ call' = [op |-> "submit_review"]
    /\ ncalls' = ncalls + 1
    /\ UNCHANGED <<kind, _comments, gets>>

\* submit_review returning None when the transport reports an error
SubmitReview_NoneOnError ==
    /\ kind = "PRReviewReporter"
    /\ ncalls < MaxCalls
    /\ pr_reviews_url' = ReviewsUrl
    /\ IF Len(comments) = 0
       THEN /\ posts' = posts
            /\ result' = None
            /\ ret' = None
       ELSE /\ posts' = Append(posts,
                               [url |-> ReviewsUrl,
                                payload |-> [body |-> ReviewBody(Len(comments)),
                                             event |-> "COMMENT",
                                             comments |-> comments]])
            /\ result' \in PostResponses
            /\ ret' = IF result'.status_code >= 400 THEN None ELSE result'
    /\ call' = [op |-> "submit_review"]
    /\ ncalls' = ncalls + 1
    /\ UNCHANGED <<kind, _comments, comments, gets>>

SubmitReview ==
    /\ kind = "PRReviewReporter"
    /\ ncalls < MaxCalls
    /\ pr_reviews_url' = ReviewsUrl
    /\ IF Len(comments) = 0
       THEN /\ posts' = posts
            /\ result' = None
            /\ ret' = None
       ELSE LET payload == [body |-> ReviewBody(Len(comments)),
                            event |-> "COMMENT",
                            comments |-> comments]
            IN  /\ posts' = Post(ReviewsUrl, payload)
                /\ result' \in PostResponses
                /\ ret' = result'
    /\ call' = [op |-> "submit_review"]
    /\ ncalls' = ncalls + 1
    /\ UNCHANGED <<kind, _comments, comments, gets>>

-----------------------------------------------------------------------------
(* The caller *)

\* the report target of the instance: what a caller passes to get_comments
ReportUrls ==
    IF kind = "CommitReporter" THEN {CommitCommentsUrl(c) : c \in Commits}
    ELSE {pr_comments_url}

Next ==
    \/ \E report_url \in ReportUrls : GetComments(report_url)
    \/ \E f \in Findings :
         CommitReportLine(f.commit, f.file_name, f.position, f.message)
    \/ \E f \in Findings :
         PRReportLine(f.commit, f.file_name, f.position, f.message)
    \/ \E f \in Findings :
         PRReviewReportLine(f.commit, f.file_name, f.position, f.message)
    \/ \E message \in CommentMessages : PostComment(message)
    \/ SubmitReview

Spec == Init /\ [][Next]_vars

-----------------------------------------------------------------------------
(* GitHubReporter.clean_already_reported called directly.  It reads only  *)
(* requester.username and changes nothing on the instance.                 *)

CleanAlreadyReported(existing, file_name, position, message) ==
    /\ call' = [op |-> "clean_already_reported", comments |-> existing,
                file_name |-> file_name, position |-> position,
                message |-> message]
    /\ ret' = clean_already_reported(existing, file_name, position, message)
    /\ UNCHANGED <<kind, _comments, comments, pr_reviews_url, gets, posts,
                   result, ncalls>>

NextPure ==
    \E existing \in CommentLists, position \in {0, 1},
       message \in CandidateMessages :
      CleanAlreadyReported(existing, "foo.py", position, message)

SpecPure == Init /\ [][NextPure]_vars

TypeOK ==
    /\ kind \in Kinds
    /\ ncalls \in 0..MaxCalls
    /\ Len(gets) <= 2 * MaxCalls
    /\ Len(posts) <= MaxCalls
    /\ Len(comments) <= MaxCalls

-----------------------------------------------------------------------------
(* Properties of clean_already_reported, checked under SpecPure *)

Matches(comment, file_name, position) ==
    /\ comment.path = file_name
    /\ comment.position = position
    /\ comment.user.login = username

\* indices of the existing comments that match the call's (path, position)
\* and the acting identity
MatchingIndices(c) ==
    {i \in DOMAIN c.comments :
        Matches(c.comments[i], c.file_name, c.position)}

\* the elements of the list `candidates` that are not substrings of `body`
NotReportedIn(candidates, body) ==
    LET Survives(m) == ~Contains(body, m) IN SelectSeq(candidates, Survives)

CleanCalled == call.op = "clean_already_reported" /\ call.message.t = "list"

\* C5: clean_already_reported filters the candidate list against the body of
\* the first comment matching path, position and acting identity, keeping
\* input order and ignoring later matching comments; with no matching comment
\* it returns the candidates unchanged.
C5_FirstMatchPolicy ==
    CleanCalled =>
        LET I == MatchingIndices(call)
        IN  IF I = {} THEN ret = call.message
            ELSE LET first == CHOOSE i \in I : \A j \in I : i <= j
                 IN  ret = PyList(NotReportedIn(call.message.v,
                                                call.comments[first].body))

\* a call where two comments match, the first one filters out part of the
\* candidates and the second one would have filtered differently
C5_Witness ==
    /\ CleanCalled
    /\ \E i, j \in MatchingIndices(call) :
         /\ i < j
         /\ \A k \in MatchingIndices(call) : i <= k
         /\ ret.v = NotReportedIn(call.message.v, call.comments[i].body)
         /\ ret.v # NotReportedIn(call.message.v, call.comments[j].body)
         /\ ret.v # call.message.v
         /\ ret.v # <<>>

\* C6 as stated: the result is the candidates filtered against the body of
\* every matching comment present, not only the first.
C6_AnyMatchingComment ==
    CleanCalled =>
        \A i \in MatchingIndices(call) :
            ret = PyList(NotReportedIn(call.message.v, call.comments[i].body))

\* C6 amended: for the first existing comment by the acting identity at
\* (path, position), with body B, the result holds exactly the candidates
\* that are not substrings of B, each as often and in the order it was given.
C6_FirstMatchingComment ==
    CleanCalled =>
        \A i \in MatchingIndices(call) :
            (\A j \in 1..(i - 1) : j \notin MatchingIndices(call)) =>
                /\ ret.t = "list"
                /\ \A k \in DOMAIN ret.v :
                     ~Contains(call.comments[i].body, ret.v[k])
                /\ ret.v = NotReportedIn(call.message.v, call.comments[i].body)

\* a call whose first matching comment already contains one candidate
C6_Witness ==
    /\ CleanCalled
    /\ MatchingIndices(call) # {}
    /\ \E k \in DOMAIN call.message.v : \E i \in MatchingIndices(call) :
         /\ \A j \in MatchingIndices(call) : i <= j
         /\ Contains(call.comments[i].body, call.message.v[k])
    /\ Len(ret.v) < Len(call.message.v)

-----------------------------------------------------------------------------
(* Properties of the comment cache *)

\* a requester.get of this instance has succeeded
Fetched == \E i \in DOMAIN gets : gets[i].status_code < 400

\* C1: once a get_comments call has succeeded, no later call issues a GET and
\* get_comments returns the stored body, whatever it is.
C1_FetchedOnce ==
    [][Fetched =>
         /\ gets' = gets
         /\ _comments' = _comments
         /\ (call'.op = "get_comments" => ret' = _comments)]_vars

\* C8: when get_comments is called and the GET returns status >= 400, it
\* returns an empty collection and the cache stays as it was: empty, and
\* never the error body.
C8_FailedFetch ==
    [][(/\ call'.op = "get_comments"
        /\ Len(gets') = Len(gets) + 1
        /\ gets'[Len(gets')].status_code >= 400)
       => /\ ~Truthy(ret')
          /\ ret' = _comments'
          /\ _comments' = _comments
          /\ _comments' # ErrorBody]_vars

\* get_comments has just returned after a failed GET
C8_Witness ==
    /\ call.op = "get_comments"
    /\ gets # <<>>
    /\ gets[Len(gets)].status_code >= 400
    /\ ret = JsonList(<<>>)
    /\ _comments = JsonList(<<>>)

-----------------------------------------------------------------------------
(* Properties of delivery *)

LineUrls == {pr_comments_url} \cup {CommitCommentsUrl(c) : c \in Commits}

\* the bullet line convert_message_to_string renders for one message
Bullet(m) == <<"*", " ">> \o m \o <<"\n">>

\* texts of the single findings reported
Texts == UNION {{m : m \in {f.message.v[i] : i \in DOMAIN f.message.v}} : f \in Findings}

\* C2: an identical finding (file_name, position, message) is delivered at
\* most once per report target: it is in at most one POSTed line comment and
\* in at most one entry of the pending review.
C2_DeliveredAtMostOnce ==
    \A url \in LineUrls, f \in Findings, m \in Texts :
        LET Delivers(payload) ==
                /\ payload.path = f.file_name
                /\ payload.position = f.position
                /\ Contains(payload.body, Bullet(m))
        IN  /\ Cardinality({i \in DOMAIN posts :
                              /\ posts[i].url = url
                              /\ Delivers(posts[i].payload)}) <= 1
            /\ Cardinality({i \in DOMAIN comments :
                              Delivers(comments[i])}) <= 1

\* the payload the last call handed on: POSTed by PRReporter, appended to the
\* pending review by PRReviewReporter, None when neither happened
Delivered ==
    IF kind = "PRReviewReporter"
    THEN IF comments' = comments THEN None ELSE comments'[Len(comments')]
    ELSE IF posts' = posts THEN None ELSE posts'[Len(posts')].payload

\* the message argument as a list of texts
AsList(message) == IF message.t = "str" THEN <<message.v[1]>> ELSE message.v

\* the bullet lines of the messages, joined in order
RECURSIVE Render(_)
Render(messages) ==
    IF messages = <<>> THEN <<>>
    ELSE Bullet(Head(messages)) \o Render(Tail(messages))

\* the candidates of the last report_line call that survive
\* clean_already_reported against the cache the call worked with
Surviving ==
    clean_already_reported(_comments'.items, call'.file_name, call'.position,
                           PyList(AsList(call'.message))).v

\* C7: get_payload (as PRReporter and PRReviewReporter call it, with the
\* arguments of report_line) returns None iff no candidate message survives
\* clean_already_reported against the cached comments; otherwise the body is
\* the concatenation of "* " + m + "\n" over the surviving messages in input
\* order, and path and position are the arguments.
C7_PayloadBody ==
    [][(call'.op = "report_line" /\ kind # "CommitReporter") =>
         /\ Delivered = None <=> Surviving = <<>>
         /\ Delivered # None =>
              /\ Delivered.body = Render(Surviving)
              /\ Delivered.path = call'.file_name
              /\ Delivered.position = call'.position]_vars

\* a PRReporter call posted a comment holding only the second of two
\* candidates, the first being reported already
C7_Witness ==
    /\ kind = "PRReporter"
    /\ call.op = "report_line"
    /\ call.message = PyList(<<MsgA, MsgB>>)
    /\ Truthy(_comments)
    /\ posts # <<>>
    /\ posts[Len(posts)].payload.body = <<"*", " ", "b", "\n">>
    /\ posts[Len(posts)].payload.position = call.position
    /\ ret # None

-----------------------------------------------------------------------------
(* Properties of PRReviewReporter *)

\* C3 as stated: report_line never POSTs and returns None; a POST is issued
\* only by submit_review, and only when the pending review is not empty.
C3_OnlySubmitReviewPosts ==
    [][kind = "PRReviewReporter" =>
         /\ call'.op = "report_line" => (posts' = posts /\ ret' = None)
         /\ posts' # posts => (call'.op = "submit_review" /\ comments # <<>>)
         /\ (call'.op = "submit_review" /\ comments = <<>>) =>
              (posts' = posts /\ ret' = None)]_vars

\* C3 amended: report_line never POSTs and returns None; submit_review POSTs
\* only when the pending review is not empty (on an empty one it returns None
\* without a POST); the only other POST of a PRReviewReporter is the issue
\* comment of the inherited post_comment.
C3_ReportLineNeverPosts ==
    [][kind = "PRReviewReporter" =>
         /\ call'.op = "report_line" => (posts' = posts /\ ret' = None)
         /\ posts' # posts =>
              \/ call'.op = "submit_review" /\ comments # <<>>
              \/ /\ call'.op = "post_comment"
                 /\ posts'[Len(posts')].url = IssueCommentsUrl
         /\ (call'.op = "submit_review" /\ comments = <<>>) =>
              (posts' = posts /\ ret' = None)]_vars

\* a review was submitted after a report_line filled the pending review and
\* the only POST so far is that review
C3_Witness ==
    /\ kind = "PRReviewReporter"
    /\ call.op = "submit_review"
    /\ comments # <<>>
    /\ Len(posts) = 1
    /\ posts[1].url = ReviewsUrl
    /\ ret # None

ReviewPosts == {i \in DOMAIN posts : posts[i].url = ReviewsUrl}

\* C4: each pending payload is sent to the reviews endpoint in at most one
\* review POST, also when submit_review is called more than once.
C4_FlushedOnce ==
    \A i, j \in ReviewPosts :
        i < j =>
            \A k \in DOMAIN posts[i].payload.comments
                      \cap DOMAIN posts[j].payload.comments :
                posts[i].payload.comments[k] # posts[j].payload.comments[k]

\* C9: the pending review starts empty; report_line appends the payload it
\* built (body, path and position only) when there is one and leaves the
\* sequence alone otherwise; no other operation, submit_review included,
\* changes it.
C9_PendingAppendOnly ==
    /\ comments = <<>>
    /\ [][kind = "PRReviewReporter" =>
            IF call'.op = "report_line"
            THEN comments' =
                   IF Surviving = <<>> THEN comments
                   ELSE Append(comments,
                               [body |-> Render(Surviving),
                                path |-> call'.file_name,
                                position |-> call'.position])
            ELSE comments' = comments]_vars

\* a review was posted and the two payloads reported before it are still
\* pending, in call order
C9_Witness ==
    /\ kind = "PRReviewReporter"
    /\ call.op = "submit_review"
    /\ ReviewPosts # {}
    /\ Len(comments) = 2
    /\ comments[1] # comments[2]
    /\ \A i \in DOMAIN comments :
         DOMAIN comments[i] = {"body", "path", "position"}
    /\ posts[Len(posts)].payload.comments = comments

\* decimal digits of a natural number
RECURSIVE Decimal(_)
Decimal(n) ==
    LET digit == <<"0", "1", "2", "3", "4", "5", "6", "7", "8", "9">>
    IN  IF n < 10 THEN digit[n + 1]
        ELSE Decimal(n \div 10) \o digit[(n % 10) + 1]

\* C10: with a non-empty pending review, submit_review issues exactly one
\* POST to pulls/{pr}/reviews with event "COMMENT", the whole pending review
\* in accumulation order and the body "Imhotep detected N potential problems
\* with this PR.", N the number of pending entries, and returns the
\* transport's response whatever its status.
C10_SubmitReview ==
    [][(call'.op = "submit_review" /\ comments # <<>>) =>
         /\ posts' =
              Append(posts,
                     [url |-> "https://api.github.com/repos/foo/bar/pulls/10/reviews",
                      payload |->
                        [body |-> "Imhotep detected " \o Decimal(Len(comments))
                                    \o " potential problems with this PR.",
                         event |-> "COMMENT",
                         comments |-> comments]])
         /\ result' \in PostResponses
         /\ ret' = result']_vars

\* a review of two comments was posted and the transport answered with an
\* error status, which submit_review returned
C10_Witness ==
    /\ call.op = "submit_review"
    /\ Len(comments) = 2
    /\ posts # <<>>
    /\ posts[Len(posts)].payload
         = [body |-> "Imhotep detected 2 potential problems with this PR.",
            event |-> "COMMENT",
            comments |-> comments]
    /\ ret = result
    /\ ret.status_code >= 400

-----------------------------------------------------------------------------
(* Properties of CommitReporter.report_line and PRReporter.report_line *)

\* the comments endpoint the last report_line call reports to
OwnUrl ==
    IF kind = "CommitReporter"
    THEN "https://api.github.com/repos/foo/bar/commits/" \o call'.commit
             \o "/comments"
    ELSE "https://api.github.com/repos/foo/bar/pulls/10/comments"

\* every message of the last report_line call is a substring of the body of
\* the first cached comment by the acting identity at its (path, position)
AllReported ==
    \E i \in DOMAIN _comments'.items :
        /\ Matches(_comments'.items[i], call'.file_name, call'.position)
        /\ \A j \in 1..(i - 1) :
             ~Matches(_comments'.items[j], call'.file_name, call'.position)
        /\ \A k \in DOMAIN AsList(call'.message) :
             Contains(_comments'.items[i].body, AsList(call'.message)[k])

-----------------------------------------------------------------------------
(* Network calls of report_line *)

\* C12 as stated: report_line on a PRReviewReporter triggers no network
\* call, neither a GET nor a POST.
C12_NoNetworkCall ==
    [][(kind = "PRReviewReporter" /\ call'.op = "report_line")
       => (gets' = gets /\ posts' = posts)]_vars

\* C12 amended: report_line on a PRReviewReporter triggers no POST; it
\* issues one GET to the pull request's comments endpoint when the comment
\* cache is empty and none otherwise.
C12_NoPostOneGet ==
    [][(kind = "PRReviewReporter" /\ call'.op = "report_line")
       => /\ posts' = posts
          /\ result' = result
          /\ IF Truthy(_comments)
             THEN gets' = gets
             ELSE /\ Len(gets') = Len(gets) + 1
                  /\ SubSeq(gets', 1, Len(gets)) = gets
                  /\ gets'[Len(gets')].url
                       = "https://api.github.com/repos/foo/bar/pulls/10/comments"]_vars

\* two findings are pending, the first report_line fetched the comments, the
\* second used the cache, and nothing was posted
C12_Witness ==
    /\ kind = "PRReviewReporter"
    /\ call.op = "report_line"
    /\ ncalls = 2
    /\ Len(comments) = 2
    /\ Len(gets) = 1
    /\ Truthy(_comments)
    /\ posts = <<>>

\* C13: a single report_line call performs at most one GET and at most one
\* POST, and no POST at all on PRReviewReporter.
C13_OneGetOnePost ==
    [][call'.op = "report_line"
       => /\ Len(gets') <= Len(gets) + 1
          /\ Len(posts') <= Len(posts) + 1
          /\ kind = "PRReviewReporter" => posts' = posts]_vars

\* a requester.get of this instance has failed
FetchFailed == \E i \in DOMAIN gets : gets[i].status_code >= 400

\* C14: after a call whose GET returned status >= 400 no later call issues a
\* GET, so the instance issues at most one GET in its lifetime.
C14_FailedFetchNotRetried ==
    [][FetchFailed => gets' = gets]_vars

\* the URL of the successful GET whose body is in the cache
CachedFrom(log) ==
    LET ok == {i \in DOMAIN log : log[i].status_code < 400}
    IN  log[CHOOSE i \in ok : \A j \in ok : j <= i].url

\* C15: the cached comments a CommitReporter.report_line call deduplicates
\* against were fetched from the comments URL of the commit it reports on.
C15_CacheOfOwnTarget ==
    [][(/\ kind = "CommitReporter"
        /\ call'.op = "report_line"
        /\ Truthy(_comments'))
       => CachedFrom(gets')
            = "https://api.github.com/repos/foo/bar/commits/"
                \o call'.commit \o "/comments"]_vars

\* C16: CommitReporter.report_line called with a str m delivers what it
\* delivers for the list [m], which is what PRReporter builds for m against
\* the same cached comments: nothing if m is reported already, else the body
\* "* " + m + "\n".
C16_StrAsOneMessage ==
    [][(/\ kind = "CommitReporter"
        /\ call'.op = "report_line"
        /\ call'.message.t = "str")
       => /\ Delivered = None <=> Surviving = <<>>
          /\ Delivered # None =>
               Delivered.body = Bullet(call'.message.v[1])]_vars

-----------------------------------------------------------------------------
(* Commit reference of a payload *)

\* C17: a payload built for report_line carries the commit reference under
\* the key its strategy passes to get_payload, and only there: commit_sha on
\* CommitReporter, commit_id on PRReporter, both holding the commit
\* argument; on PRReviewReporter, which passes None for commit and key, the
\* payload has no commit field whatever the commit argument is.
C17_CommitReference ==
    [][(call'.op = "report_line" /\ Delivered # None)
       => /\ (kind = "CommitReporter" =>
               /\ DOMAIN Delivered = {"body", "path", "position", "commit_sha"}
               /\ Delivered.commit_sha = call'.commit)
          /\ (kind = "PRReporter" =>
               /\ DOMAIN Delivered = {"body", "path", "position", "commit_id"}
               /\ Delivered.commit_id = call'.commit)
          /\ (kind = "PRReviewReporter" =>
               DOMAIN Delivered = {"body", "path", "position"})]_vars

\* a PRReviewReporter queued a payload without commit field for a finding
\* reported with commit sha2
C17_Witness ==
    /\ kind = "PRReviewReporter"
    /\ call.op = "report_line"
    /\ call.commit = "sha2"
    /\ comments # <<>>
    /\ comments[Len(comments)].position = call.position
    /\ DOMAIN comments[Len(comments)] = {"body", "path", "position"}

-----------------------------------------------------------------------------
(* Failed writes *)

\* the latest requester.post returned status >= 400
PostFailed == result # None /\ result.status_code >= 400

\* C18: a POST answered with status >= 400 is returned to the caller like
\* any other response and changes neither the comment cache nor the pending
\* review (the cache changes only by a GET of the same call); the next
\* report_line is deduplicated and, if something survives, delivered, by the
\* same rule as after a successful call.
C18_FailedPostIsolated ==
    [][/\ (posts' # posts /\ result'.status_code >= 400) =>
            /\ ret' = result'
            /\ Len(posts') = Len(posts) + 1
            /\ comments' = comments
            /\ (gets' = gets => _comments' = _comments)
            /\ (call'.op \in {"post_comment", "submit_review"} =>
                 (gets' = gets /\ _comments' = _comments))
       /\ (PostFailed /\ call'.op = "report_line") =>
            /\ (Truthy(_comments) => (gets' = gets /\ _comments' = _comments))
            /\ (kind # "CommitReporter" =>
                 /\ (Delivered = None <=> Surviving = <<>>)
                 /\ (Delivered # None => Delivered.body = Render(Surviving)))
            /\ (kind = "CommitReporter" =>
                 ((call'.message.t = "list" /\ Surviving # <<>>)
                     => Len(posts') = Len(posts) + 1))]_vars

\* a second comment was posted with the cache still in place although the
\* POST of the call before had failed, and this POST failed too
C18_Witness ==
    /\ kind \in {"CommitReporter", "PRReporter"}
    /\ call.op = "report_line"
    /\ ncalls = 2
    /\ Len(posts) = 2
    /\ Len(gets) = 1
    /\ Truthy(_comments)
    /\ PostFailed
    /\ ret = result

-----------------------------------------------------------------------------
(* post_comment *)

\* C19: every post_comment call issues exactly one POST, to
\* issues/{pr}/comments with the payload {body: message}, issues no GET and
\* leaves the comment cache and the pending review unchanged.
C19_PostCommentFrame ==
    [][call'.op = "post_comment"
       => /\ posts' =
               Append(posts,
                      [url |-> "https://api.github.com/repos/foo/bar/issues/10/comments",
                       payload |-> [body |-> call'.message]])
          /\ ret' = result'
          /\ gets' = gets
          /\ _comments' = _comments
          /\ comments' = comments]_vars

\* the same message was posted twice by a PRReviewReporter that holds a
\* pending finding and cached comments
C19_Witness ==
    /\ kind = "PRReviewReporter"
    /\ call.op = "post_comment"
    /\ Truthy(_comments)
    /\ comments # <<>>
    /\ Len(posts) = 2
    /\ posts[1] = posts[2]
    /\ posts[2].payload = [body |-> call.message]

====
